---- MODULE Spec2Model ----
(***************************************************************************)
(* Model of pybat/cli/commands/setup.py: the workflow functions relax,     *)
(* transition, dimers and neb, and the utilities find_transition_structures*)
(* and find_migrating_ion.                                                 *)
(*                                                                         *)
(* A structure is the sequence of its sites (structure.sites).  A site is  *)
(* a record [species, coords, magmom]; coords is a 3-vector of integers    *)
(* and magmom is <<m>> for a magnetic moment m, NoMagmom (the empty        *)
(* sequence) when the site carries no "magmom" property.                   *)
(* Positions in a TLA+ sequence start at 1, Python indices at 0: a Python  *)
(* index is always written position - 1.                                   *)
(***************************************************************************)
EXTENDS Integers, Sequences, FiniteSets, TLC

VARIABLES
    fn,        \* the function that was called
    pc,        \* the position reached in its body
    args,      \* the arguments of the call (a record, fixed during the call)
    cwd,       \* the current working directory of the process
    disk,      \* the files the call finds on disk
    loc,       \* the local variables of the call (a record)
    log,       \* the file accesses and builder calls made so far, in order
    outcome,   \* "running", "returned", or the name of the exception raised
    result     \* the value returned (NoResult until the call returns)

vars == <<fn, pc, args, cwd, disk, loc, log, outcome, result>>

----------------------------------------------------------------------------
(* Bounds of the model. *)

MaxSites == 4          \* sites per structure given to find_migrating_ion
MaxArgSites == 2       \* sites per structure passed to transition
MaxFileSites == 1      \* sites per structure loaded from a file
MaxImages == 2         \* nimages
MaxDimers == 2         \* non-equivalent dimers of a cathode

Species == {"Li", "O"}
Origin == <<0, 0, 0>>
InitialCoords == {Origin, <<1, 0, 0>>}
FinalCoords == {Origin, <<1, 0, 0>>, <<0, 2, 0>>}

NoMagmom == <<>>       \* the value of site.properties without "magmom"
NoResult == "no result"
None == 0              \* Python's None where a site reference is expected

SeqsUpTo(S, n) == UNION {[1..m -> S] : m \in 0..n}

Min(a, b) == IF a < b THEN a ELSE b

----------------------------------------------------------------------------
(* Structures and sites. *)

Site(sp, c, m) == [species |-> sp, coords |-> c, magmom |-> m]

\* "magmom" in structure.site_properties.keys(): the key is present as soon
\* as one site carries the property; a structure without sites has no keys.
HasMagmomKey(structure) ==
    \E k \in 1..Len(structure) : structure[k].magmom # NoMagmom

\* Every site of the structure carries a magnetic moment.
CarriesMagmom(structure) ==
    \A k \in 1..Len(structure) : structure[k].magmom # NoMagmom

\* [0] * len(sites)
Zeros(n) == [k \in 1..n |-> 0]

\* structure.add_site_property("magmom", values): the library refuses a list
\* whose length is not the number of sites (ValueError), and otherwise gives
\* the k-th value to the k-th site.
AddSitePropertyRaises(structure, values) == Len(values) # Len(structure)

AddSiteProperty(structure, values) ==
    [k \in 1..Len(structure) |-> [structure[k] EXCEPT !.magmom = <<values[k]>>]]

\* structure.remove_sites([index]) on a copy: index is a Python index.
RemoveSite(structure, index) ==
    [k \in 1..(Len(structure) - 1) |->
        IF k < index + 1 THEN structure[k] ELSE structure[k + 1]]

----------------------------------------------------------------------------
(* find_migrating_ion *)

\* np.linalg.norm(a - b) orders displacements as its square does, and is
\* positive exactly when its square is: the model keeps the square, an integer.
Distance(a, b) ==
    (a[1] - b[1]) * (a[1] - b[1]) + (a[2] - b[2]) * (a[2] - b[2])
        + (a[3] - b[3]) * (a[3] - b[3])

\* Site.__eq__, which list.index applies: same species, same coordinates,
\* same properties.
SiteEq(s, t) ==
    /\ s.species = t.species
    /\ s.coords = t.coords
    /\ s.magmom = t.magmom

CountsDifferLt(initial_structure, final_structure) ==
    Len(initial_structure) < Len(final_structure)

\* len(initial_structure.sites) != len(final_structure.sites)
CountsDiffer(initial_structure, final_structure) ==
    Len(initial_structure) # Len(final_structure)

\* max_distance = 0; migrating_site = None.  migrating_site refers to a site
\* object of initial_structure: the model keeps the position of that object.
ScanStart == [max_distance |-> 0, migrating_site |-> None, k |-> 0]

LoopBodyGeq(st, initial_structure, final_structure) ==
    LET k == st.k + 1
        distance == Distance(initial_structure[k].coords,
                             final_structure[k].coords)
    IN  IF distance >= st.max_distance
        THEN [max_distance |-> distance, migrating_site |-> k, k |-> k]
        ELSE [st EXCEPT !.k = k]

\* One iteration of the for loop over zip(initial.sites, final.sites).
LoopBody(st, initial_structure, final_structure) ==
    LET k == st.k + 1
        distance == Distance(initial_structure[k].coords,
                             final_structure[k].coords)
    IN  IF distance > st.max_distance
        THEN [max_distance |-> distance, migrating_site |-> k, k |-> k]
        ELSE [st EXCEPT !.k = k]

\* zip stops at the shorter of the two site lists.
ZipLen(initial_structure, final_structure) ==
    Min(Len(initial_structure), Len(final_structure))

RECURSIVE Scan(_, _, _)
Scan(st, initial_structure, final_structure) ==
    IF st.k >= ZipLen(initial_structure, final_structure)
    THEN st
    ELSE Scan(LoopBody(st, initial_structure, final_structure),
              initial_structure, final_structure)

\* initial_structure.sites.index(migrating_site): the Python index of the
\* first site equal to the one referred to; None is in no site list.
SitesIndex(sites, ref) ==
    IF ref = None
    THEN [raises |-> "ValueError", index |-> -1]
    ELSE LET first == CHOOSE j \in 1..Len(sites) :
                          /\ SiteEq(sites[j], sites[ref])
                          /\ \A h \in 1..(j - 1) : ~SiteEq(sites[h], sites[ref])
         IN  [raises |-> "none", index |-> first - 1]

\* The whole call: [raises, index].
FindMigratingIon(initial_structure, final_structure) ==
    IF CountsDiffer(initial_structure, final_structure)
    THEN [raises |-> "IOError", index |-> -1]
    ELSE SitesIndex(initial_structure,
                    Scan(ScanStart, initial_structure,
                         final_structure).migrating_site)

\* The inputs of the locator: the two structures are site-aligned, the k-th
\* site of the final structure is the k-th species of the initial one.
LocatorInitials ==
    {[k \in 1..Len(c) |-> Site(c[k][1], c[k][2], NoMagmom)] :
        c \in SeqsUpTo(Species \X InitialCoords, MaxSites)}

AlignedFinal(initial_structure, coords) ==
    [k \in 1..Len(coords) |->
        Site(IF k <= Len(initial_structure)
             THEN initial_structure[k].species ELSE "Li",
             coords[k], NoMagmom)]

----------------------------------------------------------------------------
(* Paths, files and the log of what a call does. *)

\* A path is its list of components, absolute or relative.
Abs(parts) == [abs |-> TRUE, parts |-> parts]
Rel(parts) == [abs |-> FALSE, parts |-> parts]
NoPath == Rel(<<"(no path)">>)
EmptyPath == Rel(<<>>)                 \* the empty string ""

\* os.path.join(p, name), name relative.
Join(p, name) == [p EXCEPT !.parts = Append(@, name)]

\* os.path.dirname(p): everything before the last separator.
Dirname(p) == [p EXCEPT !.parts = SubSeq(@, 1, Len(@) - 1)]

\* os.path.abspath(p): a relative path is taken from the current working
\* directory, and "." components are dropped.  The operating system resolves
\* a relative path given to open(), mkdir() or isfile() the same way.
Abspath(p) ==
    LET whole == IF p.abs THEN p.parts ELSE cwd.parts \o p.parts
    IN  Abs(SelectSeq(whole, LAMBDA x : x # "."))

\* path is dir or lies below it (both absolute).
Inside(dir, path) ==
    /\ Len(path.parts) >= Len(dir.parts)
    /\ SubSeq(path.parts, 1, Len(dir.parts)) = dir.parts

File(content) == [exists |-> TRUE, content |-> content]
Absent == [exists |-> FALSE, content |-> <<>>]

\* One entry of the log: op is "read", "write", "test", "listdir", "mkdir",
\* "build" (an input set is built from the structures in arg), "visualize"
\* or "norm" (a displacement is computed); path is the absolute path touched.
Event(op, path, arg) == [op |-> op, path |-> path, arg |-> arg]

InitLocator ==
    /\ fn = "find_migrating_ion"
    /\ pc = "check_counts"
    /\ \E initial_structure \in LocatorInitials :
       \E coords \in SeqsUpTo(FinalCoords, MaxSites) :
          args = [initial_structure |-> initial_structure,
                  final_structure |->
                      AlignedFinal(initial_structure, coords)]
    /\ cwd = NoPath
    /\ disk = <<>>
    /\ loc = ScanStart
    /\ log = <<>>
    /\ outcome = "running"
    /\ result = NoResult

Raise(exception) ==
    /\ outcome' = exception
    /\ pc' = "done"
    /\ result' = NoResult

\* Lines 334-340.
FMI_CheckCounts ==
    /\ fn = "find_migrating_ion" /\ pc = "check_counts"
    /\ IF CountsDiffer(args.initial_structure, args.final_structure)
       THEN /\ Raise("IOError")
            /\ UNCHANGED loc
       ELSE /\ pc' = "loop"
            /\ loc' = ScanStart
            /\ UNCHANGED <<outcome, result>>
    /\ UNCHANGED <<fn, args, cwd, disk, log>>

\* Lines 344-351, one pair of sites.
FMI_LoopStep ==
    /\ fn = "find_migrating_ion" /\ pc = "loop"
    /\ loc.k < ZipLen(args.initial_structure, args.final_structure)
    /\ loc' = LoopBody(loc, args.initial_structure, args.final_structure)
    /\ log' = Append(log, Event("norm", NoPath, loc.k + 1))
    /\ UNCHANGED <<fn, pc, args, cwd, disk, outcome, result>>

\* Line 353.
FMI_Return ==
    /\ fn = "find_migrating_ion" /\ pc = "loop"
    /\ loc.k >= ZipLen(args.initial_structure, args.final_structure)
    /\ LET r == SitesIndex(args.initial_structure, loc.migrating_site)
       IN  IF r.raises # "none"
           THEN Raise(r.raises)
           ELSE /\ outcome' = "returned"
                /\ result' = r.index
                /\ pc' = "done"
    /\ UNCHANGED <<fn, args, cwd, disk, loc, log>>

NextLocator == FMI_CheckCounts \/ FMI_LoopStep \/ FMI_Return

SpecLocator == InitLocator /\ [][NextLocator]_vars

----------------------------------------------------------------------------
(* Inputs shared by the workflows. *)

\* The structures of at most n sites over the given coordinates, no site
\* carrying a magnetic moment.
Structures(species, coords, n) ==
    {[k \in 1..Len(c) |-> Site(c[k][1], c[k][2], NoMagmom)] :
        c \in SeqsUpTo(species \X coords, n)}

\* The same structure with a magnetic moment of 1 on every site.
Magnetized(structure) ==
    [k \in 1..Len(structure) |-> [structure[k] EXCEPT !.magmom = <<1>>]]

WithOrWithoutMagmom(S) == S \cup {Magnetized(s) : s \in S}

WorkDir == Abs(<<"work">>)
\* The directory argument: an absolute directory other than the working
\* directory, or the working directory itself.
DirectoryArgs == {Abs(<<"calc">>), Rel(<<".">>)}

Return(value) ==
    /\ outcome' = "returned"
    /\ result' = value
    /\ pc' = "done"

----------------------------------------------------------------------------
(* transition *)

InitTransition ==
    /\ fn = "transition"
    /\ pc = "magmom_initial"
    /\ cwd = WorkDir
    /\ disk = <<>>
    /\ \E directory \in DirectoryArgs :
       \E initial_structure \in
              WithOrWithoutMagmom(Structures(Species, InitialCoords,
                                             MaxArgSites)) :
       \E final_structure \in
              WithOrWithoutMagmom(Structures({"Li"}, FinalCoords,
                                             MaxArgSites)) :
       \E is_migration \in BOOLEAN, hse_calculation \in BOOLEAN :
          /\ args = [directory |-> directory,
                     initial_structure |-> initial_structure,
                     final_structure |-> final_structure,
                     is_migration |-> is_migration,
                     hse_calculation |-> hse_calculation]
          \* The two structures are the caller's objects: the function
          \* works on them in place.
          /\ loc = [initial_structure |-> initial_structure,
                    final_structure |-> final_structure,
                    host_structure |-> <<>>]
    /\ log = <<>>
    /\ outcome = "running"
    /\ result = NoResult

\* Line 104: the list given to the final structure has one zero per site of
\* the INITIAL structure.
FinalMagmomValues(initial_structure, final_structure) ==
    Zeros(Len(initial_structure))

\* Lines 98-100.
T_MagmomInitial ==
    /\ fn = "transition" /\ pc = "magmom_initial"
    /\ loc' = IF ~HasMagmomKey(loc.initial_structure)
              THEN [loc EXCEPT !.initial_structure =
                       AddSiteProperty(@, Zeros(Len(@)))]
              ELSE loc
    /\ pc' = "magmom_final"
    /\ UNCHANGED <<fn, args, cwd, disk, log, outcome, result>>

\* Lines 102-104.
T_MagmomFinal ==
    /\ fn = "transition" /\ pc = "magmom_final"
    /\ LET values == FinalMagmomValues(loc.initial_structure,
                                       loc.final_structure)
       IN  IF HasMagmomKey(loc.final_structure)
           THEN /\ pc' = "build"
                /\ UNCHANGED <<loc, outcome, result>>
           ELSE IF AddSitePropertyRaises(loc.final_structure, values)
           THEN /\ Raise("ValueError")
                /\ UNCHANGED loc
           ELSE /\ loc' = [loc EXCEPT !.final_structure =
                              AddSiteProperty(@, values)]
                /\ pc' = "build"
                /\ UNCHANGED <<outcome, result>>
    /\ UNCHANGED <<fn, args, cwd, disk, log>>

\* Lines 107-116: the two PybatRelaxSet and the root directory.
T_BuildSets ==
    /\ fn = "transition" /\ pc = "build"
    /\ log' = log \o
          <<Event("build", NoPath, <<loc.initial_structure>>),
            Event("build", NoPath, <<loc.final_structure>>)>>
    /\ pc' = "write_initial"
    /\ UNCHANGED <<fn, args, cwd, disk, loc, outcome, result>>

\* Line 119.
T_WriteInitial ==
    /\ fn = "transition" /\ pc = "write_initial"
    /\ log' = Append(log, Event("write",
                  Join(Abspath(args.directory), "initial"), "initial"))
    /\ pc' = "write_final"
    /\ UNCHANGED <<fn, args, cwd, disk, loc, outcome, result>>

\* Line 120, and the test of line 124.
T_WriteFinal ==
    /\ fn = "transition" /\ pc = "write_final"
    /\ log' = Append(log, Event("write",
                  Join(Abspath(args.directory), "final"), "final"))
    /\ IF args.is_migration
       THEN /\ pc' = "host" /\ UNCHANGED <<outcome, result>>
       ELSE Return(NoResult)
    /\ UNCHANGED <<fn, args, cwd, disk, loc>>

\* Lines 126-132: the locator, the copy without the migrating site, and
\* the static set built from it.
T_Host ==
    /\ fn = "transition" /\ pc = "host"
    /\ LET r == FindMigratingIon(loc.initial_structure, loc.final_structure)
       IN  IF r.raises # "none"
           THEN /\ Raise(r.raises)
                /\ UNCHANGED <<loc, log>>
           ELSE /\ loc' = [loc EXCEPT !.host_structure =
                              RemoveSite(loc.initial_structure, r.index)]
                /\ log' = Append(log, Event("build", NoPath,
                              <<RemoveSite(loc.initial_structure, r.index)>>))
                /\ pc' = "write_host"
                /\ UNCHANGED <<outcome, result>>
    /\ UNCHANGED <<fn, args, cwd, disk>>

\* Line 133.
T_WriteHost ==
    /\ fn = "transition" /\ pc = "write_host"
    /\ log' = Append(log, Event("write",
                  Join(Abspath(args.directory), "host"), "host"))
    /\ Return(NoResult)
    /\ UNCHANGED <<fn, args, cwd, disk, loc>>

NextTransition ==
    \/ T_MagmomInitial \/ T_MagmomFinal \/ T_BuildSets
    \/ T_WriteInitial \/ T_WriteFinal \/ T_Host \/ T_WriteHost

SpecTransition == InitTransition /\ [][NextTransition]_vars

----------------------------------------------------------------------------
(* neb *)

\* What Outcar(...).magnetization may hold: one "tot" value per atom of the
\* run, for a run of any size up to the bound (or none at all).
Magnetizations == SeqsUpTo({1}, MaxFileSites)

HostStates == {"absent", "file", "directory"}

InitNeb ==
    /\ fn = "neb"
    /\ pc = "contcar"
    /\ cwd = WorkDir
    /\ \E contcar \in {Absent} \cup
              {File(s) : s \in Structures({"Li"}, InitialCoords,
                                          MaxFileSites)} :
       \E outcar \in {Absent} \cup {File(m) : m \in Magnetizations} :
       \E json \in {Absent} \cup
              {File(s) : s \in WithOrWithoutMagmom(
                            Structures({"Li"}, InitialCoords,
                                       MaxFileSites))} :
       \E final \in {Absent} \cup
              {File(s) : s \in Structures({"Li"}, FinalCoords,
                                          MaxFileSites)} :
       \E host \in HostStates :
          disk = [initial_CONTCAR |-> contcar,
                  initial_OUTCAR |-> outcar,
                  initial_json |-> json,
                  final_CONTCAR |-> final,
                  host |-> host]
    /\ \E directory \in DirectoryArgs :
       \E nimages \in 1..MaxImages :
       \E is_migration \in BOOLEAN, hse_calculation \in BOOLEAN :
          args = [directory |-> directory,
                  nimages |-> nimages,
                  is_migration |-> is_migration,
                  hse_calculation |-> hse_calculation]
    /\ loc = [initial_structure |-> <<>>,
              initial_source |-> "none",
              final_structure |-> <<>>,
              images |-> [method |-> "none", nimages |-> 0,
                          relax_sites |-> -1, structures |-> <<>>]]
    /\ log = <<>>
    /\ outcome = "running"
    /\ result = NoResult

\* The images of lines 253 and 258.  Structure.interpolate, which the path
\* finder starts from as well, builds every image with the species and the
\* site_properties of the start structure (initial_structure); the end
\* structure gives positions only.  The positions are the library's and are
\* not kept.
Image(start) ==
    [k \in 1..Len(start) |->
        [species |-> start[k].species, magmom |-> start[k].magmom]]

\* interpolate(nimages = n) returns n + 1 structures, the two ends included.
Images(start, n) == [i \in 1..(n + 1) |-> Image(start)]

\* Lines 248-251 leave n_images to NEBPathfinder, whose default is 20.
PathfinderImages == 20

\* Lines 214-218.
NebDirectory == Abspath(args.directory)
InitialDir == Join(NebDirectory, "initial")
FinalDir == Join(NebDirectory, "final")

\* Lines 221-222; a missing file raises FileNotFoundError, caught at 229.
N_Contcar ==
    /\ fn = "neb" /\ pc = "contcar"
    /\ log' = Append(log, Event("read", Join(InitialDir, "CONTCAR"),
                                "CONTCAR"))
    /\ IF disk.initial_CONTCAR.exists
       THEN /\ loc' = [loc EXCEPT
                          !.initial_structure = disk.initial_CONTCAR.content,
                          !.initial_source = "CONTCAR"]
            /\ pc' = "outcar"
       ELSE /\ pc' = "fallback"
            /\ UNCHANGED loc
    /\ UNCHANGED <<fn, args, cwd, disk, outcome, result>>

N_OutcarUncaught ==
    /\ fn = "neb" /\ pc = "outcar"
    /\ log' = Append(log, Event("read", Join(InitialDir, "OUTCAR"),
                                "OUTCAR"))
    /\ IF ~disk.initial_OUTCAR.exists
       THEN /\ Raise("FileNotFoundError")
            /\ UNCHANGED loc
       ELSE LET initial_magmom == disk.initial_OUTCAR.content
            IN  IF AddSitePropertyRaises(loc.initial_structure,
                                         initial_magmom)
                THEN /\ Raise("ValueError")
                     /\ UNCHANGED loc
                ELSE /\ loc' = [loc EXCEPT !.initial_structure =
                                   AddSiteProperty(@, initial_magmom)]
                     /\ pc' = "final"
                     /\ UNCHANGED <<outcome, result>>
    /\ UNCHANGED <<fn, args, cwd, disk>>

\* Lines 225-227; a missing OUTCAR raises FileNotFoundError too (caught at
\* 229), a magnetization of another length raises ValueError (not caught).
N_Outcar ==
    /\ fn = "neb" /\ pc = "outcar"
    /\ log' = Append(log, Event("read", Join(InitialDir, "OUTCAR"),
                                "OUTCAR"))
    /\ IF ~disk.initial_OUTCAR.exists
       THEN /\ pc' = "fallback"
            /\ UNCHANGED <<loc, outcome, result>>
       ELSE LET initial_magmom == disk.initial_OUTCAR.content
            IN  IF AddSitePropertyRaises(loc.initial_structure,
                                         initial_magmom)
                THEN /\ Raise("ValueError")
                     /\ UNCHANGED loc
                ELSE /\ loc' = [loc EXCEPT !.initial_structure =
                                   AddSiteProperty(@, initial_magmom)]
                     /\ pc' = "final"
                     /\ UNCHANGED <<outcome, result>>
    /\ UNCHANGED <<fn, args, cwd, disk>>

\* Lines 229-233.
N_Fallback ==
    /\ fn = "neb" /\ pc = "fallback"
    /\ log' = Append(log, Event("read", Join(InitialDir, "structure.json"),
                                "structure.json"))
    /\ IF disk.initial_json.exists
       THEN /\ loc' = [loc EXCEPT
                          !.initial_structure = disk.initial_json.content,
                          !.initial_source = "structure.json"]
            /\ pc' = "final"
            /\ UNCHANGED <<outcome, result>>
       ELSE /\ Raise("FileNotFoundError")
            /\ UNCHANGED loc
    /\ UNCHANGED <<fn, args, cwd, disk>>

\* Lines 235-239.
N_Final ==
    /\ fn = "neb" /\ pc = "final"
    /\ log' = Append(log, Event("read", Join(FinalDir, "CONTCAR"),
                                "CONTCAR"))
    /\ IF disk.final_CONTCAR.exists
       THEN /\ loc' = [loc EXCEPT
                          !.final_structure = disk.final_CONTCAR.content]
            /\ pc' = IF args.is_migration THEN "host" ELSE "interpolate"
            /\ UNCHANGED <<outcome, result>>
       ELSE /\ Raise("FileNotFoundError")
            /\ UNCHANGED loc
    /\ UNCHANGED <<fn, args, cwd, disk>>

\* Lines 242-243: Chgcar.from_file opens <directory>/host.
N_Host ==
    /\ fn = "neb" /\ pc = "host"
    /\ log' = Append(log, Event("read", Join(NebDirectory, "host"), "host"))
    /\ IF disk.host = "absent" THEN Raise("FileNotFoundError")
       ELSE IF disk.host = "directory" THEN Raise("IsADirectoryError")
       ELSE pc' = "pathfinder" /\ UNCHANGED <<outcome, result>>
    /\ UNCHANGED <<fn, args, cwd, disk, loc>>

\* Lines 245-254: the locator, the path finder, and its plot, written to
\* the relative path "neb.vasp".
N_Pathfinder ==
    /\ fn = "neb" /\ pc = "pathfinder"
    /\ LET r == FindMigratingIon(loc.initial_structure, loc.final_structure)
       IN  IF r.raises # "none"
           THEN /\ Raise(r.raises)
                /\ UNCHANGED <<loc, log>>
           ELSE /\ loc' = [loc EXCEPT !.images =
                              [method |-> "NEBPathfinder",
                               nimages |-> PathfinderImages,
                               relax_sites |-> r.index,
                               structures |->
                                   Images(loc.initial_structure,
                                          PathfinderImages)]]
                /\ log' = Append(log, Event("write",
                              Abspath(Rel(<<"neb.vasp">>)), "neb.vasp"))
                /\ pc' = "build"
                /\ UNCHANGED <<outcome, result>>
    /\ UNCHANGED <<fn, args, cwd, disk>>

\* Lines 258-259: Structure.interpolate refuses structures of different
\* lengths (ValueError).
N_Interpolate ==
    /\ fn = "neb" /\ pc = "interpolate"
    /\ IF Len(loc.initial_structure) # Len(loc.final_structure)
       THEN /\ Raise("ValueError")
            /\ UNCHANGED loc
       ELSE /\ loc' = [loc EXCEPT !.images =
                          [method |-> "interpolate",
                           nimages |-> args.nimages,
                           relax_sites |-> -1,
                           structures |->
                               Images(loc.initial_structure,
                                      args.nimages)]]
            /\ pc' = "build"
            /\ UNCHANGED <<outcome, result>>
    /\ UNCHANGED <<fn, args, cwd, disk, log>>

\* Line 261: PybatNEBSet is handed the images, and nothing else.
N_Build ==
    /\ fn = "neb" /\ pc = "build"
    /\ log' = Append(log, Event("build", NoPath, loc.images.structures))
    /\ pc' = "write"
    /\ UNCHANGED <<fn, args, cwd, disk, loc, outcome, result>>

N_VisualizeFirst ==
    /\ fn = "neb" /\ pc = "write"
    /\ log' = log \o <<Event("visualize", NoPath, "transition"),
                       Event("write", NebDirectory, "neb inputs")>>
    /\ Return(NoResult)
    /\ UNCHANGED <<fn, args, cwd, disk, loc>>

\* Line 264.
N_Write ==
    /\ fn = "neb" /\ pc = "write"
    /\ log' = Append(log, Event("write", NebDirectory, "neb inputs"))
    /\ pc' = "visualize"
    /\ UNCHANGED <<fn, args, cwd, disk, loc, outcome, result>>

\* Line 267.
N_Visualize ==
    /\ fn = "neb" /\ pc = "visualize"
    /\ log' = Append(log, Event("visualize", NoPath, "transition"))
    /\ Return(NoResult)
    /\ UNCHANGED <<fn, args, cwd, disk, loc>>

NextNeb ==
    \/ N_Contcar \/ N_Outcar \/ N_Fallback \/ N_Final \/ N_Host
    \/ N_Pathfinder \/ N_Interpolate \/ N_Build \/ N_Write \/ N_Visualize

SpecNeb == InitNeb /\ [][NextNeb]_vars

----------------------------------------------------------------------------
(* relax *)

\* A dict is a function from its keys; d.update(other).
UpdateKeepOld(d, other) ==
    [k \in DOMAIN d \cup DOMAIN other |->
        IF k \in DOMAIN d THEN d[k] ELSE other[k]]

Update(d, other) ==
    [k \in DOMAIN d \cup DOMAIN other |->
        IF k \in DOMAIN other THEN other[k] ELSE d[k]]

EmptyDict == [k \in {} |-> "0"]

\* {"ISMEAR": 1, "SIGMA": 0.2}; INCAR values are kept as they are written.
Smearing == [k \in {"ISMEAR", "SIGMA"} |->
                IF k = "ISMEAR" THEN "1" ELSE "0.2"]

\* What the "INCAR" entry of a YAML profile may hold.
IncarKeys == {"ISMEAR", "SIGMA", "NSW"}
IncarValues == {"0", "0.05"}
Profiles == UNION {[K -> IncarValues] : K \in SUBSET IncarKeys}

\* MODULE_DIR, and _load_yaml_config.
ModuleDir == Abs(<<"pybat", "set_configs">>)
YamlPath(filename) ==
    Join(ModuleDir, IF filename = "HSESet" THEN "HSESet.yaml"
                    ELSE "DFTUSet.yaml")

FileStructures ==
    WithOrWithoutMagmom(Structures({"Li"}, InitialCoords, MaxFileSites))

InitRelax ==
    /\ fn = "relax"
    /\ pc = "load"
    /\ cwd = WorkDir
    /\ \E structure \in {Absent} \cup {File(s) : s \in FileStructures} :
       \E hse \in Profiles, dftu \in Profiles :
          disk = [structure |-> structure, HSESet |-> hse, DFTUSet |-> dftu]
    /\ \E calculation_dir \in {EmptyPath, Rel(<<"run">>), Abs(<<"calc">>)} :
       \E is_metal \in BOOLEAN, hse_calculation \in BOOLEAN :
          args = [structure_file |-> Rel(<<"structure.json">>),
                  calculation_dir |-> calculation_dir,
                  is_metal |-> is_metal,
                  hse_calculation |-> hse_calculation]
    /\ loc = [structure |-> <<>>,
              user_incar_settings |-> EmptyDict,
              calculation_dir |-> NoPath]
    /\ log = <<>>
    /\ outcome = "running"
    /\ result = NoResult

\* Lines 39-40.
R_Load ==
    /\ fn = "relax" /\ pc = "load"
    /\ log' = Append(log, Event("read", Abspath(args.structure_file),
                                "structure"))
    /\ IF disk.structure.exists
       THEN /\ loc' = [loc EXCEPT !.structure = disk.structure.content]
            /\ pc' = "magmom"
            /\ UNCHANGED <<outcome, result>>
       ELSE /\ Raise("FileNotFoundError")
            /\ UNCHANGED loc
    /\ UNCHANGED <<fn, args, cwd, disk>>

\* Lines 44-45.
R_Magmom ==
    /\ fn = "relax" /\ pc = "magmom"
    /\ loc' = IF ~HasMagmomKey(loc.structure)
              THEN [loc EXCEPT !.structure =
                       AddSiteProperty(@, Zeros(Len(@)))]
              ELSE loc
    /\ pc' = "settings"
    /\ UNCHANGED <<fn, args, cwd, disk, log, outcome, result>>

\* Lines 49-69: the profile, and the default directory.  os.path.dirname(".")
\* is the empty string, so the default is the bare relative name.
R_Settings ==
    /\ fn = "relax" /\ pc = "settings"
    /\ LET name == IF args.hse_calculation THEN "HSESet" ELSE "DFTUSet"
           config == IF args.hse_calculation
                     THEN disk.HSESet ELSE disk.DFTUSet
           current_dir == Dirname(Rel(<<".">>))
           default == Join(current_dir,
                           IF args.hse_calculation
                           THEN "hse_relax" ELSE "dftu_relax")
       IN  /\ log' = Append(log, Event("read", YamlPath(name), name))
           /\ loc' = [loc EXCEPT
                  !.user_incar_settings = Update(EmptyDict, config),
                  !.calculation_dir =
                      IF args.calculation_dir = EmptyPath
                      THEN default ELSE args.calculation_dir]
    /\ pc' = "smearing"
    /\ UNCHANGED <<fn, args, cwd, disk, outcome, result>>

\* Lines 72-73.
R_Smearing ==
    /\ fn = "relax" /\ pc = "smearing"
    /\ loc' = IF args.is_metal
              THEN [loc EXCEPT !.user_incar_settings = Update(@, Smearing)]
              ELSE loc
    /\ pc' = "build"
    /\ UNCHANGED <<fn, args, cwd, disk, log, outcome, result>>

\* Lines 76-81.
R_BuildAndWrite ==
    /\ fn = "relax" /\ pc = "build"
    /\ log' = log \o
          <<Event("build", NoPath, <<loc.structure>>),
            Event("write", Abspath(loc.calculation_dir), "relax inputs")>>
    /\ Return(NoResult)
    /\ UNCHANGED <<fn, args, cwd, disk, loc>>

NextRelax ==
    R_Load \/ R_Magmom \/ R_Settings \/ R_Smearing \/ R_BuildAndWrite

SpecRelax == InitRelax /\ [][NextRelax]_vars

----------------------------------------------------------------------------
(* dimers *)

\* What cathode.find_noneq_dimers() may return: each dimer with its two
\* site indices and str(indices[0]) + "_" + str(indices[1]).
Dimers == {[indices |-> <<0, 1>>, directory |-> "0_1"],
           [indices |-> <<2, 3>>, directory |-> "2_3"]}

\* The directories the working directory may hold before the call; a dimer
\* directory may be there with or without its "final".
DimerDirectories ==
    {Rel(<<"initial">>)} \cup {Rel(<<d.directory>>) : d \in Dimers}

\* os.mkdir(path) at lines 162 and 181-182: FileExistsError when the path is
\* there already, from before the call or from an earlier step of it.
MkdirRaises(path) == path \in disk.directories \cup loc.made

InitDimers ==
    /\ fn = "dimers"
    /\ pc = "load"
    /\ cwd = WorkDir
    /\ \E structure \in {Absent} \cup {File(s) : s \in FileStructures} :
       \E found \in SeqsUpTo(Dimers, MaxDimers) :
       \E directories \in SUBSET DimerDirectories :
          disk = [structure |-> structure, dimers |-> found,
                  directories |-> directories]
    /\ \E is_metal \in BOOLEAN, hse_calculation \in BOOLEAN :
          args = [structure_file |-> Rel(<<"structure.json">>),
                  is_metal |-> is_metal,
                  hse_calculation |-> hse_calculation]
    /\ loc = [cathode |-> <<>>, dimers |-> <<>>, k |-> 0, made |-> {}]
    /\ log = <<>>
    /\ outcome = "running"
    /\ result = NoResult

\* Lines 155-158.
D_Load ==
    /\ fn = "dimers" /\ pc = "load"
    /\ log' = Append(log, Event("read", Abspath(args.structure_file),
                                "structure"))
    /\ IF disk.structure.exists
       THEN /\ loc' = [loc EXCEPT !.cathode = disk.structure.content,
                                  !.dimers = disk.dimers]
            /\ pc' = "initial"
            /\ UNCHANGED <<outcome, result>>
       ELSE /\ Raise("FileNotFoundError")
            /\ UNCHANGED loc
    /\ UNCHANGED <<fn, args, cwd, disk>>

\* Lines 161-170: os.mkdir("initial"), its FileExistsError caught; the
\* structure of the cathode goes to the input set as it was loaded.
D_Initial ==
    /\ fn = "dimers" /\ pc = "initial"
    /\ log' = log \o
          <<Event("mkdir", Abspath(Rel(<<"initial">>)), "initial"),
            Event("build", NoPath, <<loc.cathode>>),
            Event("write", Abspath(Rel(<<"initial">>)), "initial")>>
    /\ loc' = [loc EXCEPT !.made = @ \cup {Rel(<<"initial">>)}]
    /\ pc' = "loop"
    /\ UNCHANGED <<fn, args, cwd, disk, outcome, result>>

\* Lines 173-205, one dimer.  Lines 180-184 make the dimer directory and
\* then its "final" in one try: when the first os.mkdir raises
\* FileExistsError the second is never called.  change_site_distance moves
\* two sites and leaves the site properties alone; the moved coordinates are
\* not kept.
D_Dimer ==
    /\ fn = "dimers" /\ pc = "loop"
    /\ loc.k < Len(loc.dimers)
    /\ LET dimer == loc.dimers[loc.k + 1]
           dimer_directory == Rel(<<dimer.directory>>)
           final_dir == Join(dimer_directory, "final")
           mkdirs ==
               IF MkdirRaises(dimer_directory)
               THEN <<Event("mkdir", Abspath(dimer_directory), "dimer")>>
               ELSE <<Event("mkdir", Abspath(dimer_directory), "dimer"),
                      Event("mkdir", Abspath(final_dir), "final")>>
           made == IF MkdirRaises(dimer_directory)
                   THEN loc.made
                   ELSE loc.made \cup {dimer_directory, final_dir}
           before ==
               mkdirs \o
               <<Event("write", Abspath(Join(dimer_directory, "dimer.xyz")),
                       "dimer.xyz")>>
       IN  IF args.hse_calculation
           THEN /\ log' = log \o before
                /\ Raise("NotImplementedError")
                /\ loc' = [loc EXCEPT !.made = made]
           ELSE /\ log' = log \o before \o
                      <<Event("build", NoPath, <<loc.cathode>>),
                        Event("write", Abspath(final_dir), "final")>>
                /\ loc' = [loc EXCEPT !.k = @ + 1, !.made = made]
                /\ UNCHANGED <<pc, outcome, result>>
    /\ UNCHANGED <<fn, args, cwd, disk>>

D_Return ==
    /\ fn = "dimers" /\ pc = "loop"
    /\ loc.k >= Len(loc.dimers)
    /\ Return(NoResult)
    /\ UNCHANGED <<fn, args, cwd, disk, loc, log>>

NextDimers == D_Load \/ D_Initial \/ D_Dimer \/ D_Return

SpecDimers == InitDimers /\ [][NextDimers]_vars

----------------------------------------------------------------------------
(* find_transition_structures *)

\* The names a directory may hold, each cut into the pieces that the
\* substring test can tell apart.
FileNames == {"init.json", "final.json", "init_final.cif"}
Pieces(name) ==
    CASE name = "init.json" -> <<"init", ".json">>
      [] name = "final.json" -> <<"final", ".json">>
      [] name = "init_final.cif" -> <<"init", "_", "final", ".cif">>
      [] OTHER -> <<name>>

\* pattern in name (Python's substring test), pattern a list of pieces.
Contains(pattern, name) ==
    \E k \in 0..(Len(Pieces(name)) - Len(pattern)) :
        SubSeq(Pieces(name), k + 1, k + Len(pattern)) = pattern

\* A directory listing: what each name is, there.
Listings == [FileNames -> {"absent", "file", "directory"}]

\* os.path.isfile(item): item is the bare name given by os.listdir, a
\* relative path, which the operating system takes from the current
\* working directory.
IsFile(item) ==
    LET path == Abspath(Rel(<<item>>))
    IN  IF path = Join(Abspath(args.directory), item)
        THEN disk.directory[item] = "file"
        ELSE disk.cwd[item] = "file"

InitFind ==
    /\ fn = "find_transition_structures"
    /\ pc = "listdir"
    /\ cwd = WorkDir
    /\ \E directory \in DirectoryArgs :
       \E initial_contains \in {<<"init">>, <<"final">>} :
       \E final_contains \in {<<"init">>, <<"final">>} :
          args = [directory |-> directory,
                  initial_contains |-> initial_contains,
                  final_contains |-> final_contains]
    /\ \E there \in Listings, here \in Listings :
          \* One directory has one listing.
          /\ Abspath(args.directory) = cwd => here = there
          /\ disk = [directory |-> there, cwd |-> here]
    /\ loc = [todo |-> {},
              initial_structure_file |-> EmptyPath,
              final_structure_file |-> EmptyPath]
    /\ log = <<>>
    /\ outcome = "running"
    /\ result = NoResult

\* Lines 288-293: os.listdir gives the names in no particular order.
F_Listdir ==
    /\ fn = "find_transition_structures" /\ pc = "listdir"
    /\ log' = Append(log, Event("listdir", Abspath(args.directory), "items"))
    /\ loc' = [loc EXCEPT !.todo =
                  {n \in FileNames : disk.directory[n] # "absent"}]
    /\ pc' = "loop"
    /\ UNCHANGED <<fn, args, cwd, disk, outcome, result>>

\* Lines 295-299, one item; isfile is reached only for a matching name.
F_Item ==
    /\ fn = "find_transition_structures" /\ pc = "loop"
    /\ \E item \in loc.todo :
          LET directory == Abspath(args.directory)
              is_initial == Contains(args.initial_contains, item)
              is_final == Contains(args.final_contains, item)
              tested == Event("test", Abspath(Rel(<<item>>)), item)
          IN  /\ loc' = [loc EXCEPT
                     !.todo = @ \ {item},
                     !.initial_structure_file =
                         IF is_initial /\ IsFile(item)
                         THEN Join(directory, item) ELSE @,
                     !.final_structure_file =
                         IF is_final /\ IsFile(item)
                         THEN Join(directory, item) ELSE @]
              /\ log' = log \o (IF is_initial THEN <<tested>> ELSE <<>>)
                            \o (IF is_final THEN <<tested>> ELSE <<>>)
    /\ UNCHANGED <<fn, pc, args, cwd, disk, outcome, result>>

\* Structure.from_file(path) on an entry of the given directory: a
\* directory cannot be opened as a file.
LoadRaises(path) ==
    IF disk.directory[path.parts[Len(path.parts)]] = "directory"
    THEN "IsADirectoryError"
    ELSE IF disk.directory[path.parts[Len(path.parts)]] = "absent"
    THEN "FileNotFoundError"
    ELSE "none"

\* Lines 301-305.
F_LoadInitial ==
    /\ fn = "find_transition_structures" /\ pc = "loop"
    /\ loc.todo = {}
    /\ IF loc.initial_structure_file = EmptyPath
       THEN /\ Raise("FileNotFoundError")
            /\ UNCHANGED log
       ELSE /\ log' = Append(log, Event("read", loc.initial_structure_file,
                                        "initial"))
            /\ IF LoadRaises(loc.initial_structure_file) # "none"
               THEN Raise(LoadRaises(loc.initial_structure_file))
               ELSE pc' = "final" /\ UNCHANGED <<outcome, result>>
    /\ UNCHANGED <<fn, args, cwd, disk, loc>>

\* Lines 307-313.  A structure is named by the file it was loaded from.
F_LoadFinal ==
    /\ fn = "find_transition_structures" /\ pc = "final"
    /\ IF loc.final_structure_file = EmptyPath
       THEN /\ Raise("FileNotFoundError")
            /\ UNCHANGED log
       ELSE /\ log' = Append(log, Event("read", loc.final_structure_file,
                                        "final"))
            /\ IF LoadRaises(loc.final_structure_file) # "none"
               THEN Raise(LoadRaises(loc.final_structure_file))
               ELSE Return(<<loc.initial_structure_file,
                             loc.final_structure_file>>)
    /\ UNCHANGED <<fn, args, cwd, disk, loc>>

NextFind == F_Listdir \/ F_Item \/ F_LoadInitial \/ F_LoadFinal

SpecFind == InitFind /\ [][NextFind]_vars

----------------------------------------------------------------------------
(* The whole module: one call of one of its functions. *)

Init ==
    \/ InitLocator \/ InitTransition \/ InitNeb
    \/ InitRelax \/ InitDimers \/ InitFind

Next ==
    \/ NextLocator \/ NextTransition \/ NextNeb
    \/ NextRelax \/ NextDimers \/ NextFind

Spec == Init /\ [][Next]_vars

----------------------------------------------------------------------------
(* Properties of find_migrating_ion. *)

IsLocatorCall == fn = "find_migrating_ion"

\* The displacement of the k-th pair of sites of the call.
Displacement(k) ==
    Distance(args.initial_structure[k].coords, args.final_structure[k].coords)

EqualCounts == Len(args.initial_structure) = Len(args.final_structure)

\* Site k moved, and moved strictly farther than every other site.
StrictlyLargest(k) ==
    /\ Displacement(k) > 0
    /\ \A j \in 1..Len(args.initial_structure) :
          j # k => Displacement(j) < Displacement(k)

\* Site k is the first site, in site order, with the maximal displacement.
FirstLargest(k) ==
    /\ \A j \in 1..Len(args.initial_structure) :
          Displacement(j) <= Displacement(k)
    /\ \A j \in 1..(k - 1) : Displacement(j) < Displacement(k)

NormsComputed == {e \in 1..Len(log) : log[e].op = "norm"}

\* C1: whenever one site of two equally long structures has moved strictly
\* farther than every other site, the locator returns the index of that site.
\* (Stated for a site that did move: a lone site that stayed is C10's case.)
\* Violated whenever an earlier site equals the moved one by value.
C1_ReturnsStrictlyLargest ==
    (IsLocatorCall /\ pc = "done" /\ EqualCounts) =>
        \A k \in 1..Len(args.initial_structure) :
            StrictlyLargest(k) => (outcome = "returned" /\ result = k - 1)

\* C2: when the site counts differ the locator raises the I/O error, returns
\* no index, and has computed no displacement.
C2_MismatchRaisesFirst ==
    (IsLocatorCall /\ ~EqualCounts) =>
        /\ outcome \in {"running", "IOError"}
        /\ result = NoResult
        /\ NormsComputed = {}
        /\ pc = "done" => outcome = "IOError"

C2_Witness ==
    /\ IsLocatorCall /\ pc = "done" /\ outcome = "IOError"
    /\ Len(args.initial_structure) = 0
    /\ Len(args.final_structure) = 2

\* Several sites share the maximal positive displacement, and site k is the
\* first of them in site order.
FirstOfTies(k) ==
    /\ FirstLargest(k)
    /\ Displacement(k) > 0
    /\ \E j \in 1..Len(args.initial_structure) :
          j # k /\ Displacement(j) = Displacement(k)

\* No earlier site of the initial structure equals site k by value (species,
\* coordinates, properties), so that sites.index finds site k itself.
NoEarlierEqualSite(k) ==
    \A h \in 1..(k - 1) :
        ~SiteEq(args.initial_structure[h], args.initial_structure[k])

C10_WitnessNoMove ==
    /\ IsLocatorCall /\ pc = "done" /\ outcome = "ValueError"
    /\ Len(args.initial_structure) = 1
    /\ Len(args.final_structure) = 1
    /\ Displacement(1) = 0

\* The index returned for the first of several tied sites is not always that
\* site's own: with an earlier site equal to it by value, line 353 returns
\* the earlier one (the defect of C1, met here with three sites at the origin
\* of which the second and the third moved equally far).
TiedSiteReturnsOwnIndex ==
    (IsLocatorCall /\ pc = "done" /\ EqualCounts) =>
        \A k \in 1..Len(args.initial_structure) :
            FirstOfTies(k) => result = k - 1

\* The loop selects the first site with the maximal positive displacement,
\* tied or not.
LocatorLoopSelectsFirstLargest ==
    (IsLocatorCall /\ pc = "done" /\ EqualCounts) =>
        \A k \in 1..Len(args.initial_structure) :
            (FirstLargest(k) /\ Displacement(k) > 0) => loc.migrating_site = k

\* The step-by-step call and the operator used by the workflows agree.
LocatorStepwiseAgrees ==
    (IsLocatorCall /\ pc = "done") =>
        LET r == FindMigratingIon(args.initial_structure, args.final_structure)
        IN  IF r.raises = "none"
            THEN outcome = "returned" /\ result = r.index
            ELSE outcome = r.raises /\ result = NoResult

----------------------------------------------------------------------------
(* Properties of the workflows. *)

Events(op) == {e \in 1..Len(log) : log[e].op = op}

\* The log entries that write the named thing.
Writes(what) == {e \in Events("write") : log[e].arg = what}
Reads(what) == {e \in Events("read") : log[e].arg = what}

IsWorkflow == fn \in {"relax", "transition", "dimers", "neb"}

\* C3: every structure handed to an input-set builder by a workflow carries
\* a magnetic moment on each of its sites.
C3_BuiltStructuresCarryMagmom ==
    IsWorkflow =>
        \A e \in Events("build") :
            \A s \in 1..Len(log[e].arg) : CarriesMagmom(log[e].arg[s])

\* The part of C3 that the code does satisfy: relax and transition.
MagmomInRelaxAndTransition ==
    fn \in {"relax", "transition"} =>
        \A e \in Events("build") :
            \A s \in 1..Len(log[e].arg) : CarriesMagmom(log[e].arg[s])

\* In neb the images carry what the initial structure carries: they lack
\* the magnetic moment only when the initial structure came from a
\* structure.json without one.
NebImagesCarryMagmomUnlessFallback ==
    fn = "neb" =>
        \A e \in Events("build") :
            \/ \A s \in 1..Len(log[e].arg) : CarriesMagmom(log[e].arg[s])
            \/ /\ loc.initial_source = "structure.json"
               /\ ~CarriesMagmom(loc.initial_structure)

----------------------------------------------------------------------------
(* neb: the source of the initial structure, and missing files. *)

IsNeb == fn = "neb"

\* The call has decided where the initial structure comes from.
SourceDecided == pc \notin {"contcar", "outcar"}

FallbackTaken == pc = "fallback" \/ Reads("structure.json") # {}

\* The call has ended without raising.
Completed == pc = "done" /\ outcome = "returned"
Raised == pc = "done" /\ outcome # "returned"

NothingWritten == Events("write") = {}

\* C4 as claimed: the fallback is taken exactly when the CONTCAR is
\* unavailable, and a missing file that the call needs makes it raise with
\* nothing written.
C4_FallbackIffContcarMissing ==
    IsNeb =>
        /\ (SourceDecided /\ disk.initial_CONTCAR.exists) =>
              (loc.initial_source = "CONTCAR" /\ ~FallbackTaken)
        /\ FallbackTaken <=> (SourceDecided /\ ~disk.initial_CONTCAR.exists)
        /\ (pc = "done" /\
            \/ ~disk.initial_CONTCAR.exists /\ ~disk.initial_json.exists
            \/ ~disk.final_CONTCAR.exists
            \/ args.is_migration /\ disk.host = "absent") =>
              (Raised /\ NothingWritten)

OutputsAvailable ==
    disk.initial_CONTCAR.exists /\ disk.initial_OUTCAR.exists

\* C4 as amended: the CONTCAR is used when the CONTCAR and the OUTCAR are
\* both available, the fallback is taken exactly when one of the two is
\* unavailable, and a missing file that the call needs makes it raise with
\* nothing written.
C4_FallbackIffOutputMissing ==
    IsNeb =>
        /\ (SourceDecided /\ OutputsAvailable) =>
              (loc.initial_source = "CONTCAR" /\ ~FallbackTaken)
        /\ FallbackTaken <=> (SourceDecided /\ ~OutputsAvailable)
        /\ Completed =>
              (loc.initial_source = "structure.json" <=> ~OutputsAvailable)
        /\ (pc = "done" /\
            \/ ~OutputsAvailable /\ ~disk.initial_json.exists
            \/ ~disk.final_CONTCAR.exists
            \/ args.is_migration /\ disk.host = "absent") =>
              (Raised /\ NothingWritten)

C4_Witness ==
    /\ IsNeb /\ Completed
    /\ disk.initial_CONTCAR.exists /\ ~disk.initial_OUTCAR.exists
    /\ loc.initial_source = "structure.json"
    /\ Writes("neb inputs") # {}

C4_WitnessRaise ==
    /\ IsNeb /\ Raised /\ outcome = "FileNotFoundError"
    /\ OutputsAvailable /\ ~disk.final_CONTCAR.exists

\* C5: the images come from the path finder (which reads the host charge
\* density and uses the site the locator returns) exactly when is_migration
\* is set, and from the interpolation with the requested nimages otherwise,
\* and they are what the NEB input set is built from;
\* the host is never read when is_migration is not set; the transition is
\* visualized only after the NEB inputs are written, and a completed call
\* has done both.
C5_BranchAndOrder ==
    IsNeb =>
        /\ loc.images.method = "NEBPathfinder" =>
              /\ args.is_migration
              /\ Reads("host") # {}
              /\ LET r == FindMigratingIon(loc.initial_structure,
                                           loc.final_structure)
                 IN  r.raises = "none" /\ loc.images.relax_sites = r.index
        /\ loc.images.method = "interpolate" =>
              /\ ~args.is_migration
              /\ loc.images.nimages = args.nimages
              /\ Len(loc.images.structures) = args.nimages + 1
        /\ \A b \in Events("build") :
              log[b].arg = loc.images.structures
        /\ ~args.is_migration => Reads("host") = {}
        /\ \A v \in Events("visualize") :
              \E w \in Writes("neb inputs") :
                  w < v /\ log[w].path = Abspath(args.directory)
        /\ Completed =>
              /\ Events("visualize") # {}
              /\ (args.is_migration <=> loc.images.method = "NEBPathfinder")
              /\ (~args.is_migration <=> loc.images.method = "interpolate")

C5_Witness ==
    /\ IsNeb /\ Completed
    /\ args.is_migration
    /\ loc.images.method = "NEBPathfinder"
    /\ Events("visualize") # {}

C5_WitnessInterpolate ==
    /\ IsNeb /\ Completed
    /\ ~args.is_migration
    /\ loc.images.nimages = MaxImages

----------------------------------------------------------------------------
(* Directories. *)

FileAccesses ==
    Events("read") \cup Events("write") \cup Events("test")
        \cup Events("listdir") \cup Events("mkdir")

\* C6: every file access of neb, transition and find_transition_structures
\* is inside the directory the call was given.
C6_AccessesInsideDirectory ==
    fn \in {"neb", "transition", "find_transition_structures"} =>
        \A e \in FileAccesses :
            Inside(Abspath(args.directory), log[e].path)

\* The part of C6 that the code does satisfy: transition.
TransitionStaysInside ==
    fn = "transition" =>
        \A e \in FileAccesses :
            Inside(Abspath(args.directory), log[e].path)

IsFind == fn = "find_transition_structures"

\* The given directory holds a regular file whose name contains the pattern.
Holds(pattern) ==
    \E n \in FileNames :
        disk.directory[n] = "file" /\ Contains(pattern, n)

\* path is a regular file of the given directory whose name contains pattern.
RegularFileOf(path, pattern) ==
    \E n \in FileNames :
        /\ path = Join(Abspath(args.directory), n)
        /\ disk.directory[n] = "file"
        /\ Contains(pattern, n)

\* C7: find_transition_structures returns a pair loaded from regular files
\* of the given directory whenever it holds one for each pattern, and raises
\* FileNotFoundError exactly when one of the two is missing.
C7_FindsWhatTheDirectoryHolds ==
    (IsFind /\ pc = "done") =>
        /\ (Holds(args.initial_contains) /\ Holds(args.final_contains)) =>
              /\ outcome = "returned"
              /\ RegularFileOf(result[1], args.initial_contains)
              /\ RegularFileOf(result[2], args.final_contains)
        /\ outcome = "FileNotFoundError" <=>
              ~(Holds(args.initial_contains) /\ Holds(args.final_contains))

\* What the code does satisfy: C7 for a call made from the given directory.
FindsFromInsideTheDirectory ==
    (IsFind /\ pc = "done" /\ Abspath(args.directory) = cwd) =>
        /\ (Holds(args.initial_contains) /\ Holds(args.final_contains)) =>
              /\ outcome = "returned"
              /\ RegularFileOf(result[1], args.initial_contains)
              /\ RegularFileOf(result[2], args.final_contains)
        /\ outcome = "FileNotFoundError" <=>
              ~(Holds(args.initial_contains) /\ Holds(args.final_contains))

----------------------------------------------------------------------------
(* relax *)

IsRelax == fn = "relax"

ChosenProfile == IF args.hse_calculation THEN disk.HSESet ELSE disk.DFTUSet

DefaultDirectory ==
    Rel(<<IF args.hse_calculation THEN "hse_relax" ELSE "dftu_relax">>)

\* C8: the settings of relax are those of the one profile chosen, with
\* ISMEAR = 1 and SIGMA = 0.2 over them for a metal and nothing else
\* changed; the inputs go to calculation_dir unless it is empty, and then
\* to hse_relax or dftu_relax.
C8_SettingsAndDirectory ==
    (IsRelax /\ Completed) =>
        LET settings == loc.user_incar_settings
        IN  /\ args.is_metal =>
                  /\ DOMAIN settings =
                         DOMAIN ChosenProfile \cup {"ISMEAR", "SIGMA"}
                  /\ settings["ISMEAR"] = "1"
                  /\ settings["SIGMA"] = "0.2"
                  /\ \A k \in DOMAIN ChosenProfile \ {"ISMEAR", "SIGMA"} :
                         settings[k] = ChosenProfile[k]
            /\ ~args.is_metal => settings = ChosenProfile
            /\ Reads(IF args.hse_calculation THEN "DFTUSet" ELSE "HSESet")
                   = {}
            /\ Cardinality(Events("write")) = 1
            /\ \A w \in Events("write") :
                  log[w].path =
                      IF args.calculation_dir # EmptyPath
                      THEN Abspath(args.calculation_dir)
                      ELSE Abspath(DefaultDirectory)

C8_Witness ==
    /\ IsRelax /\ Completed
    /\ args.is_metal /\ args.hse_calculation
    /\ DOMAIN disk.HSESet = IncarKeys
    /\ disk.HSESet["ISMEAR"] = "0" /\ disk.HSESet["SIGMA"] = "0.05"
    /\ disk.DFTUSet # disk.HSESet
    /\ args.calculation_dir = EmptyPath
    /\ loc.user_incar_settings["SIGMA"] = "0.2"

----------------------------------------------------------------------------
(* transition *)

IsTransition == fn = "transition"

\* C9: every call of transition writes 'initial' and then 'final'; 'host'
\* is written only for a migration and only after both, from the initial
\* structure without the site the locator returned; the caller's initial
\* structure keeps its sites; when the locator raises, 'initial' and
\* 'final' are written and 'host' is not.  (Stated for structures that
\* have sites.)
C9_InitialFinalThenHost ==
    (IsTransition /\ pc = "done" /\ Len(args.initial_structure) > 0
        /\ Len(args.final_structure) > 0) =>
        /\ \E a \in Writes("initial") : \E b \in Writes("final") : a < b
        /\ \A h \in Writes("host") :
              /\ args.is_migration
              /\ \A a \in Writes("initial") \cup Writes("final") : a < h
              /\ LET r == FindMigratingIon(args.initial_structure,
                                           args.final_structure)
                 IN  /\ r.raises = "none"
                     /\ Len(loc.host_structure) =
                            Len(args.initial_structure) - 1
                     /\ loc.host_structure =
                            RemoveSite(loc.initial_structure, r.index)
        /\ Len(loc.initial_structure) = Len(args.initial_structure)
        /\ (Raised /\ args.is_migration) => Writes("host") = {}
        /\ (Completed /\ args.is_migration) => Writes("host") # {}

\* What the code does satisfy: C9 for the calls that get past line 104.
TransitionOrderPastMagmom ==
    (IsTransition /\ pc = "done" /\
     ~(~HasMagmomKey(args.final_structure) /\
       Len(args.initial_structure) # Len(args.final_structure))) =>
        /\ \E a \in Writes("initial") : \E b \in Writes("final") : a < b
        /\ \A h \in Writes("host") :
              /\ args.is_migration
              /\ \A a \in Writes("initial") \cup Writes("final") : a < h
        /\ Len(loc.initial_structure) = Len(args.initial_structure)
        /\ (Raised /\ args.is_migration) => Writes("host") = {}

====
